---- MODULE Spec2Model ----
(***************************************************************************)
(* Model of the effect monad of src/lib.rs.                                *)
(*                                                                         *)
(* An effect is a value implementing FnOnce() -> A.  The crate offers two  *)
(* kinds of them: the caller's closures (here: the closures of the crate's *)
(* tests, plus one that panics) and BoundEffect { ea, f }, whose call_once *)
(* runs ea, applies f to the result and runs the effect f returned.       *)
(*                                                                         *)
(* Effects and continuations are terms (records).  The captured state of   *)
(* the closures is the one integer x the tests mutate through px.  An      *)
(* invocation is executed step by step on an explicit call stack, and the  *)
(* same evaluation is given as the recursive operator call_once, against   *)
(* which the stepwise run is compared.                                     *)
(*                                                                         *)
(* The caller owns bags of effects and continuations.  Passing a value by  *)
(* value (to bind, to bind_ignore_contents, or into a closure) moves it    *)
(* out of the bag unless it is Copy: the test closures over the raw        *)
(* pointer px are Copy and stay usable, a BoundEffect and a closure over   *)
(* &mut isize are moved.  Calling an effect the caller owns takes it only  *)
(* when it implements FnOnce alone (a BoundEffect, the closure that gives  *)
(* its &mut away); a closure that is Fn or FnMut is called in place.       *)
(*                                                                         *)
(* x is an isize; within the bounds below its values stay far inside the   *)
(* 64-bit range, so the arithmetic of the closures never overflows.        *)
(***************************************************************************)
EXTENDS Integers, Sequences, FiniteSets, Bags

\* Bounds of the model.
MaxX0 == 3        \* the captured counter starts in 0..MaxX0
MaxClosures == 3  \* closures (effects and continuations) the caller starts with
MaxCompose == 2   \* compositions (bind, bind_ignore_contents, closures written)
MaxInvokes == 2   \* top-level invocations in one behaviour

VARIABLES
  x,        \* the captured state: the isize behind px
  pool,     \* the effects the caller owns (a bag)
  conts,    \* the continuations the caller owns (a bag)
  ncomp,    \* compositions made so far
  ctl,      \* position of the running invocation
  stack,    \* pending BoundEffect::call_once frames: the f each still owns
  trace,    \* the closures run and continuations applied by the last invocation
  result,   \* what the last finished invocation returned (or its panic)
  invoked,  \* the effects invoked at top level, in order
  xs,       \* x when the last invocation started
  made,     \* history: the single-use values that came into being (a bag)
  used      \* history: the single-use values invoked or applied (a bag)

vars == <<x, pool, conts, ncomp, ctl, stack, trace, result, invoked, xs, made, used>>

----------------------------------------------------------------------------
\* Values: the results of effects.

Unit == [t |-> "unit", n |-> 0]
IntV(n) == [t |-> "int", n |-> n]
RefPx == [t |-> "ref", n |-> 0]
PanicV(n) == [t |-> "panic", n |-> n]
NoValue == [t |-> "none", n |-> 0]
IsPanic(v) == v.t = "panic"

\* Terms.
Prim(op, arg) == [k |-> "prim", op |-> op, arg |-> arg]
Clo(op) == [k |-> "clo", op |-> op]

\* ResolveFn::Const(v)
Const(v) == [k |-> "const", v |-> v]

\* impl From<T> for ResolveFn<T>
From(v) == Const(v)

\* The closure |_| v of the doc comment of bind_ignore_contents.
Ignore(v) == [k |-> "ignore", v |-> v]

\* The closure |a| f(a).bind(g) of the associativity law.
Then(f, g) == [k |-> "then", f |-> f, g |-> g]

\* fn bind_effects(first, f) -> BoundEffect { ea: first, f: f }
bind_effects(first, f) == [k |-> "bound", ea |-> first, f |-> f]

\* EffectMonad::bind for T: FnOnce() -> A
bind(self, f) == bind_effects(self, f)

\* Mutants of bind_ignore_contents: the operands the wrong way round; the
\* first effect forgotten.
bind_ignore_contents_swapped(self, eb) == bind(eb, From(self))
bind_ignore_contents_second_only(self, eb) == eb

\* EffectMonad::bind_ignore_contents: self.bind(eb.into())
bind_ignore_contents(self, eb) == bind(self, From(eb))

\* The closures of the tests, and one that panics: those over the raw
\* pointer px (add2, dbl, dec, dbl42), and those holding the exclusive
\* borrow of x: move || *px += 1 (inc), || { x += 5; } (add5),
\* move || { *px = 42; } (set42) and move || { *px = 6; px } (set6).
PrimCatalogue ==
  { Prim("add2", 0), Prim("dbl", 0), Prim("dec", 0), Prim("dbl42", 0),
    Prim("inc", 0), Prim("add5", 0), Prim("set42", 0), Prim("set6", 0),
    Prim("boom", 0) }

\* The closures that hold &mut x: the borrow checker lets one of them be
\* alive at a time.
BorrowsMut(e) == e.op \in {"inc", "add5", "set42", "set6"}

ContCatalogue == { Clo("store"), Clo("incr"), Clo("boomf") }

\* Running a closure on captured state s: the new state and the result.
PrimStep(e, s) ==
  CASE e.op = "add2"  -> [x |-> s + 2, val |-> Unit]
    [] e.op = "dbl"   -> [x |-> s * 2, val |-> Unit]
    [] e.op = "dec"   -> [x |-> s - 1, val |-> Unit]
    [] e.op = "dbl42" -> [x |-> s * 2, val |-> IntV(42)]
    [] e.op = "setx"  -> [x |-> e.arg, val |-> Unit]
    [] e.op = "set6"  -> [x |-> 6,     val |-> RefPx]
    [] e.op = "inc"   -> [x |-> s + 1, val |-> Unit]
    [] e.op = "add5"  -> [x |-> s + 5, val |-> Unit]
    [] e.op = "set42" -> [x |-> 42,    val |-> Unit]
    [] e.op = "boom"  -> [x |-> s,     val |-> PanicV(1)]
    [] OTHER          -> [x |-> s,     val |-> Unit]

\* Trace events.
Ran(e) == [ev |-> "run", who |-> e]
Applied(f) == [ev |-> "apply", who |-> f]

\* Mutant of ResolveFn::call_once: the result depends on the argument.
ResolveFn_call_once_by_arg(self, args) ==
  IF args = Unit THEN self.v ELSE Prim("nop", 0)

\* impl FnOnce<Args> for ResolveFn<T>: match self { Const(v) => v }
ResolveFn_call_once(self, args) == self.v

\* Applying a continuation to the value a: the effect it returns (or its
\* panic) and the applications that took place.
RECURSIVE ApplyCont(_, _)
ApplyCont(f, a) ==
  CASE f.k = "const"  -> [val |-> Unit, eff |-> ResolveFn_call_once(f, a), tr |-> <<Applied(f)>>]
    [] f.k = "ignore" -> [val |-> Unit, eff |-> f.v, tr |-> <<Applied(f)>>]
    [] f.k = "then"   ->
         LET r == ApplyCont(f.f, a) IN
         IF IsPanic(r.val) THEN [r EXCEPT !.tr = <<Applied(f)>> \o r.tr]
         ELSE [val |-> Unit, eff |-> bind(r.eff, f.g), tr |-> <<Applied(f)>> \o r.tr]
    [] f.op = "store" -> [val |-> Unit, eff |-> Prim("setx", a.n), tr |-> <<Applied(f)>>]
    [] f.op = "incr"  -> [val |-> Unit, eff |-> Prim("inc", 0), tr |-> <<Applied(f)>>]
    [] OTHER          -> [val |-> PanicV(2), eff |-> Prim("nop", 0), tr |-> <<Applied(f)>>]

\* BoundEffect::call_once as a whole, on captured state s: the final state,
\* the value returned (or the panic) and the events, in order.
RECURSIVE call_once(_, _)
call_once(e, s) ==
  IF e.k = "prim"
  THEN LET r == PrimStep(e, s) IN [x |-> r.x, val |-> r.val, tr |-> <<Ran(e)>>]
  ELSE LET r1 == call_once(e.ea, s) IN
       IF IsPanic(r1.val) THEN r1
       ELSE LET ap == ApplyCont(e.f, r1.val) IN
            IF IsPanic(ap.val)
            THEN [x |-> r1.x, val |-> ap.val, tr |-> r1.tr \o ap.tr]
            ELSE LET r2 == call_once(ap.eff, r1.x) IN
                 [x |-> r2.x, val |-> r2.val, tr |-> r1.tr \o ap.tr \o r2.tr]

\* The types the trait bounds of bind enforce: the result type of an
\* effect, and whether a continuation takes a value of type t.
RECURSIVE RetT(_), OutT(_, _)
RetT(e) ==
  IF e.k = "prim"
  THEN CASE e.op = "dbl42" -> "int" [] e.op = "set6" -> "ref" [] OTHER -> "unit"
  ELSE OutT(e.f, RetT(e.ea))

OutT(f, t) ==
  CASE f.k = "const"  -> RetT(f.v)
    [] f.k = "ignore" -> RetT(f.v)
    [] f.k = "then"   -> OutT(f.g, OutT(f.f, t))
    [] OTHER          -> "unit"

RECURSIVE Accepts(_, _)
Accepts(f, t) ==
  CASE f.k = "const"  -> TRUE
    [] f.k = "ignore" -> TRUE
    [] f.k = "then"   -> Accepts(f.f, t) /\ Accepts(f.g, OutT(f.f, t))
    [] f.op = "store" -> t = "int"
    [] f.op = "incr"  -> t = "ref"
    [] OTHER          -> TRUE

\* Which values are Copy.  A closure is Copy when all it captures is: the
\* test closures over the raw pointer px are (and are Fn), and so are the
\* closures they return; the closures over &mut (inc, add5, set42, set6)
\* are not.  BoundEffect and ResolveFn derive nothing, so they never are.
\* |_| v and |a| f(a).bind(g) capture what is Copy by reference and move the
\* rest.
RECURSIVE IsCopy(_)
IsCopy(t) ==
  CASE t.k = "prim"   -> t.op \in {"add2", "dbl", "dec", "dbl42", "setx", "boom"}
    [] t.k = "clo"    -> TRUE
    [] t.k = "ignore" -> IsCopy(t.v)
    [] t.k = "then"   -> IsCopy(t.f) /\ IsCopy(t.g)
    [] OTHER          -> FALSE

\* Which effects can be called again after a call.  A closure that only
\* reads or writes through what it captured is Fn or FnMut and is called in
\* place; set6 gives its captured px away and is FnOnce alone, and
\* BoundEffect has the one impl FnOnce, whose call_once takes self.
IsFnMut(t) ==
  t.k = "prim" /\ (IsCopy(t) \/ t.op \in {"inc", "add5", "set42"})

\* A single-use value: neither copied when passed nor callable twice.  (A
\* continuation that is not Copy has moved a value that is not Copy in and
\* gives it out when applied, so it is FnOnce alone.)
Once(t) == ~IsCopy(t) /\ ~IsFnMut(t)

\* Calling the effect t the caller owns in the bag B.
TakeCalled(B, t) == IF IsFnMut(t) THEN B ELSE B (-) SetToBag({t})

\* Passing t by value out of the bag B of values the caller owns: a Copy
\* value is copied and stays, any other is moved.
Take(B, t) == IF IsCopy(t) THEN B ELSE B (-) SetToBag({t})

\* The caller receives t (copies of a Copy value are not told apart).
Give(B, t) == IF IsCopy(t) /\ BagIn(t, B) THEN B ELSE B (+) SetToBag({t})

\* The caller can pass t1 and t2 by value in one call.
CanPass(B, t1, t2) == t1 # t2 \/ IsCopy(t1) \/ CopiesIn(t1, B) >= 2

\* History bags: a single-use value t is recorded, any other is not.
Note(B, t) == IF Once(t) THEN B (+) SetToBag({t}) ELSE B

\* The closures and continuations of the events tr, recorded.
RECURSIVE NoteAll(_, _)
NoteAll(B, tr) ==
  IF tr = <<>> THEN B ELSE NoteAll(Note(B, Head(tr).who), Tail(tr))

\* The BoundEffects that applying f to a builds (f(a).bind(g) inside
\* |a| f(a).bind(g)).
RECURSIVE Built(_, _)
Built(f, a) ==
  IF f.k # "then" THEN EmptyBag
  ELSE LET r == ApplyCont(f.f, a) IN
       IF IsPanic(r.val) THEN Built(f.f, a)
       ELSE Built(f.f, a) (+) SetToBag({bind(r.eff, f.g)})

----------------------------------------------------------------------------
Idle == [mode |-> "idle"]

Init ==
  /\ x \in 0..MaxX0
  /\ \E P \in SUBSET PrimCatalogue, F \in SUBSET ContCatalogue :
       /\ Cardinality(P) + Cardinality(F) <= MaxClosures
       /\ Cardinality({e \in P : BorrowsMut(e)}) <= 1
       /\ pool = SetToBag(P)
       /\ conts = SetToBag(F)
       /\ made = SetToBag({e \in P : Once(e)})
  /\ used = EmptyBag
  /\ ncomp = 0
  /\ ctl = Idle
  /\ stack = <<>>
  /\ trace = <<>>
  /\ result = NoValue
  /\ invoked = <<>>
  /\ xs = x

\* Mutant of Bind: the first effect is run when the composite is built.
BindEager ==
  /\ ctl.mode = "idle"
  /\ ncomp < MaxCompose
  /\ \E e \in BagToSet(pool), f \in BagToSet(conts) :
       /\ Accepts(f, RetT(e))
       /\ pool' = Give(Take(pool, e), bind(e, f))
       /\ conts' = Take(conts, f)
       /\ made' = Note(made, bind(e, f))
       /\ x' = call_once(e, x).x
  /\ ncomp' = ncomp + 1
  /\ UNCHANGED <<ctl, stack, trace, result, invoked, xs, used>>

\* e.bind(f): e and f are passed by value into a new BoundEffect; nothing
\* runs.
Bind ==
  /\ ctl.mode = "idle"
  /\ ncomp < MaxCompose
  /\ \E e \in BagToSet(pool), f \in BagToSet(conts) :
       /\ Accepts(f, RetT(e))
       /\ pool' = Give(Take(pool, e), bind(e, f))
       /\ conts' = Take(conts, f)
       /\ made' = Note(made, bind(e, f))
  /\ ncomp' = ncomp + 1
  /\ UNCHANGED <<x, ctl, stack, trace, result, invoked, xs, used>>

\* e1.bind_ignore_contents(e2)
BindIgnoreContents ==
  /\ ctl.mode = "idle"
  /\ ncomp < MaxCompose
  /\ \E e1 \in BagToSet(pool), e2 \in BagToSet(pool) :
       /\ CanPass(pool, e1, e2)
       /\ pool' = Give(Take(Take(pool, e1), e2), bind_ignore_contents(e1, e2))
       /\ made' = Note(Note(made, From(e2)), bind_ignore_contents(e1, e2))
  /\ ncomp' = ncomp + 1
  /\ UNCHANGED <<x, conts, ctl, stack, trace, result, invoked, xs, used>>

\* The caller writes the closure |_| e.
MkIgnore ==
  /\ ctl.mode = "idle"
  /\ ncomp < MaxCompose
  /\ \E e \in BagToSet(pool) :
       /\ pool' = Take(pool, e)
       /\ conts' = Give(conts, Ignore(e))
       /\ made' = Note(made, Ignore(e))
  /\ ncomp' = ncomp + 1
  /\ UNCHANGED <<x, ctl, stack, trace, result, invoked, xs, used>>

\* The caller writes the closure |a| f(a).bind(g).
MkThen ==
  /\ ctl.mode = "idle"
  /\ ncomp < MaxCompose
  /\ \E f \in BagToSet(conts), g \in BagToSet(conts) :
       /\ CanPass(conts, f, g)
       /\ \E t \in {"unit", "int", "ref"} : Accepts(Then(f, g), t)
       /\ conts' = Give(Take(Take(conts, f), g), Then(f, g))
       /\ made' = Note(made, Then(f, g))
  /\ ncomp' = ncomp + 1
  /\ UNCHANGED <<x, pool, ctl, stack, trace, result, invoked, xs, used>>

\* A BoundEffect (or another value that is not Copy) goes out of scope
\* without having been invoked.
Drop ==
  /\ ctl.mode = "idle"
  /\ \E e \in BagToSet(pool) : ~IsCopy(e) /\ pool' = pool (-) SetToBag({e})
  /\ UNCHANGED <<x, conts, ncomp, ctl, stack, trace, result, invoked, xs, made, used>>

\* Mutant of Invoke: call_once takes &self, the caller keeps the effect.
InvokeKeep ==
  /\ ctl.mode = "idle"
  /\ Len(invoked) < MaxInvokes
  /\ \E e \in BagToSet(pool) :
       /\ ctl' = [mode |-> "call", eff |-> e]
       /\ invoked' = Append(invoked, e)
  /\ xs' = x
  /\ trace' = <<>>
  /\ UNCHANGED <<x, pool, conts, ncomp, stack, result, made, used>>

\* e(): the caller invokes an effect it owns.  FnOnce::call_once takes self
\* by value: a BoundEffect, or a closure that is FnOnce alone, is gone; a
\* closure that is Fn or FnMut is called through call or call_mut and
\* stays.
Invoke ==
  /\ ctl.mode = "idle"
  /\ Len(invoked) < MaxInvokes
  /\ \E e \in BagToSet(pool) :
       /\ pool' = TakeCalled(pool, e)
       /\ ctl' = [mode |-> "call", eff |-> e]
       /\ invoked' = Append(invoked, e)
  /\ xs' = x
  /\ trace' = <<>>
  /\ UNCHANGED <<x, conts, ncomp, stack, result, made, used>>

\* A closure runs.
CallPrim ==
  /\ ctl.mode = "call"
  /\ ctl.eff.k = "prim"
  /\ LET r == PrimStep(ctl.eff, x) IN
       /\ x' = r.x
       /\ ctl' = [mode |-> IF IsPanic(r.val) THEN "panic" ELSE "ret", val |-> r.val]
  /\ trace' = Append(trace, Ran(ctl.eff))
  /\ used' = Note(used, ctl.eff)
  /\ UNCHANGED <<pool, conts, ncomp, stack, result, invoked, xs, made>>

\* Mutant of step 1: pending continuations are kept first-in first-out.
CallOnceFirstQueued ==
  /\ ctl.mode = "call"
  /\ ctl.eff.k = "bound"
  /\ stack' = stack \o <<ctl.eff.f>>
  /\ ctl' = [mode |-> "call", eff |-> ctl.eff.ea]
  /\ used' = Note(used, ctl.eff)
  /\ UNCHANGED <<x, pool, conts, ncomp, trace, result, invoked, xs, made>>

\* BoundEffect::call_once, step 1: (self.ea)() is called; f waits.
CallOnceFirst ==
  /\ ctl.mode = "call"
  /\ ctl.eff.k = "bound"
  /\ stack' = <<ctl.eff.f>> \o stack
  /\ ctl' = [mode |-> "call", eff |-> ctl.eff.ea]
  /\ used' = Note(used, ctl.eff)
  /\ UNCHANGED <<x, pool, conts, ncomp, trace, result, invoked, xs, made>>

\* Mutant of step 2: f is applied to a default value, not to a_result.
CallOnceApplyStale ==
  /\ ctl.mode = "ret"
  /\ stack # <<>>
  /\ LET f == Head(stack)
         ap == ApplyCont(f, Unit) IN
       /\ ctl' = IF IsPanic(ap.val)
                 THEN [mode |-> "panic", val |-> ap.val]
                 ELSE [mode |-> "applied", eff |-> ap.eff, f |-> f, a |-> ctl.val]
       /\ trace' = trace \o ap.tr
       /\ used' = NoteAll(used, ap.tr)
       /\ made' = made (+) Built(f, ctl.val)
  /\ stack' = Tail(stack)
  /\ UNCHANGED <<x, pool, conts, ncomp, result, invoked, xs>>

\* BoundEffect::call_once, step 2: a_result is bound and (self.f)(a_result)
\* is evaluated.
CallOnceApply ==
  /\ ctl.mode = "ret"
  /\ stack # <<>>
  /\ LET f == Head(stack)
         ap == ApplyCont(f, ctl.val) IN
       /\ ctl' = IF IsPanic(ap.val)
                 THEN [mode |-> "panic", val |-> ap.val]
                 ELSE [mode |-> "applied", eff |-> ap.eff, f |-> f, a |-> ctl.val]
       /\ trace' = trace \o ap.tr
       /\ used' = NoteAll(used, ap.tr)
       /\ made' = made (+) Built(f, ctl.val)
  /\ stack' = Tail(stack)
  /\ UNCHANGED <<x, pool, conts, ncomp, result, invoked, xs>>

\* Mutant of step 3: the effect f returned is dropped, not called.
CallOnceSecondSkipped ==
  /\ ctl.mode = "applied"
  /\ ctl' = [mode |-> "ret", val |-> Unit]
  /\ UNCHANGED <<x, pool, conts, ncomp, stack, trace, result, invoked, xs, made, used>>

\* BoundEffect::call_once, step 3: the effect f returned is called; its
\* result is the result of call_once.
CallOnceSecond ==
  /\ ctl.mode = "applied"
  /\ ctl' = [mode |-> "call", eff |-> ctl.eff]
  /\ UNCHANGED <<x, pool, conts, ncomp, stack, trace, result, invoked, xs, made, used>>

\* The invocation returns to the caller.
Return ==
  /\ ctl.mode = "ret"
  /\ stack = <<>>
  /\ result' = ctl.val
  /\ ctl' = Idle
  /\ UNCHANGED <<x, pool, conts, ncomp, stack, trace, invoked, xs, made, used>>

\* Mutant of Unwind: call_once catches the panic and goes on with ().
UnwindCaught ==
  /\ ctl.mode = "panic"
  /\ ctl' = [mode |-> "ret", val |-> Unit]
  /\ UNCHANGED <<x, pool, conts, ncomp, stack, trace, result, invoked, xs, made, used>>

\* A panic unwinds every pending call_once: nothing catches it.
Unwind ==
  /\ ctl.mode = "panic"
  /\ stack' = <<>>
  /\ result' = ctl.val
  /\ ctl' = Idle
  /\ UNCHANGED <<x, pool, conts, ncomp, trace, invoked, xs, made, used>>

Next ==
  \/ Bind
  \/ BindIgnoreContents
  \/ MkIgnore
  \/ MkThen
  \/ Drop
  \/ Invoke
  \/ CallPrim
  \/ CallOnceFirst
  \/ CallOnceApply
  \/ CallOnceSecond
  \/ Return
  \/ Unwind

Spec == Init /\ [][Next]_vars
----------------------------------------------------------------------------
\* Helpers of the properties.

Root == invoked[Len(invoked)]
Cur == trace
Done == ctl.mode = "idle" /\ Len(invoked) > 0
IsPrefix(s, t) == Len(s) <= Len(t) /\ SubSeq(t, 1, Len(s)) = s
NoDup(s) == \A i, j \in 1..Len(s) : s[i] = s[j] => i = j
SelectEv(s, kind) == SelectSeq(s, LAMBDA e : e.ev = kind)
Without(s, f) == SelectSeq(s, LAMBDA e : e # Applied(f))
IsBic(e) == e.k = "bound" /\ e.f.k = "const"

\* The fault the event's closure raises itself, if any (a fault inside
\* |a| f(a).bind(g) is the fault of f, whose application is the next event).
FaultOfEvent(e) ==
  CASE e.ev = "run"      -> PrimStep(e.who, 0).val
    [] e.who.k = "then"  -> Unit
    [] OTHER             -> ApplyCont(e.who, Unit).val

\* The captured state after the closures of tr have run, in order, on s.
RECURSIVE Replay(_, _)
Replay(tr, s) ==
  IF tr = <<>> THEN s
  ELSE Replay(Tail(tr), IF Head(tr).ev = "run" THEN PrimStep(Head(tr).who, s).x ELSE s)

\* Invoking e1, applying f to its result and invoking the effect returned,
\* by hand.
Manual(e1, f, s) ==
  LET r1 == call_once(e1, s) IN
  IF IsPanic(r1.val) THEN [x |-> r1.x, val |-> r1.val, tr |-> r1.tr]
  ELSE LET ap == ApplyCont(f, r1.val) IN
       IF IsPanic(ap.val) THEN [x |-> r1.x, val |-> ap.val, tr |-> r1.tr \o ap.tr]
       ELSE LET r2 == call_once(ap.eff, r1.x) IN
            [x |-> r2.x, val |-> r2.val, tr |-> r1.tr \o ap.tr \o r2.tr]

----------------------------------------------------------------------------
\* C1: one invocation of e1.bind(f) runs e1 once, then applies f once to
\* e1's result, then runs the effect f returned once, in that order: at
\* every moment the events so far are a prefix of
\* (e1's run, the application of f, the run of f's effect), f is applied at
\* top level only after all of e1's run and to e1's result, and a completed
\* invocation has performed the whole sequence.
C1_BindOrder ==
  (Len(invoked) > 0 /\ Root.k = "bound") =>
    LET m == Manual(Root.ea, Root.f, xs)
        r1 == call_once(Root.ea, xs) IN
      /\ IsPrefix(Cur, m.tr)
      /\ (Done => Cur = m.tr)
      /\ (ctl.mode = "applied" /\ stack = <<>> /\ ctl.f = Root.f) =>
            /\ ctl.a = r1.val
            /\ Cur = r1.tr \o ApplyCont(Root.f, r1.val).tr

C1_Witness ==
  /\ Done
  /\ Root.k = "bound"
  /\ Root.ea.k = "bound"
  /\ ~IsPanic(result)
  /\ Len(Cur) >= 5

\* C2: invoking e1.bind(f) returns the value and leaves the captured state
\* that invoking e1, applying f and invoking the result by hand does; with
\* e1 returning 42 and f storing its argument, x ends as 42.
C2_BindEqualsManual ==
  (Done /\ Root.k = "bound") =>
    /\ x = Manual(Root.ea, Root.f, xs).x
    /\ result = Manual(Root.ea, Root.f, xs).val
    /\ (Root = bind(Prim("dbl42", 0), Clo("store")) => x = 42)
    /\ (Root = bind(Prim("set6", 0), Clo("incr")) => x = 7)

C2_Witness ==
  /\ Done
  /\ Root = bind(Prim("dbl42", 0), Clo("store"))
  /\ x = 42
  /\ xs # 42

\* C3: e1.bind_ignore_contents(e2) performs e1's side effect before e2's
\* and returns the value e2 produces on the state e1 left: from 0, add 2
\* then subtract 1 leaves 1; from 3, double then decrement leaves 5, not 4.
C3_IgnoreContentsOrder ==
  (Done /\ IsBic(Root)) =>
    \A e1 \in {Root.ea, Root.f.v}, e2 \in {Root.ea, Root.f.v} :
      (Root = bind_ignore_contents(e1, e2) /\ ~IsPanic(call_once(e1, xs).val)) =>
        LET r1 == call_once(e1, xs)
            r2 == call_once(e2, r1.x) IN
          /\ x = r2.x
          /\ result = r2.val
          /\ SelectEv(Cur, "run") = SelectEv(r1.tr \o r2.tr, "run")
          /\ (e1.k = "prim" /\ e1.op = "add2" /\ e2.k = "prim" /\ e2.op = "dec" /\ xs = 0) => x = 1
          /\ (e1.k = "prim" /\ e1.op = "dbl" /\ e2.k = "prim" /\ e2.op = "dec" /\ xs = 3) => (x = 5 /\ x # 4)

C3_Witness ==
  /\ Done
  /\ Root = bind_ignore_contents(Prim("dbl", 0), Prim("dec", 0))
  /\ xs = 3
  /\ x = 5

\* C4: e1.bind_ignore_contents(e2) and e1.bind(|_| e2), from the same
\* captured state, run the same closures in the same order, leave the same
\* state and return the same value.
C4_IgnoreContentsIsBindConst ==
  /\ (Done /\ IsBic(Root)) =>
       LET r == call_once(bind(Root.ea, Ignore(Root.f.v)), xs) IN
         /\ x = r.x
         /\ result = r.val
         /\ SelectEv(Cur, "run") = SelectEv(r.tr, "run")
  /\ (Done /\ Root.k = "bound" /\ Root.f.k = "ignore") =>
       LET r == call_once(bind_ignore_contents(Root.ea, Root.f.v), xs) IN
         /\ x = r.x
         /\ result = r.val
         /\ SelectEv(Cur, "run") = SelectEv(r.tr, "run")

C4_Witness ==
  /\ Done
  /\ IsBic(Root)
  /\ result = IntV(42)
  /\ x # xs

\* C5: composing and dropping run nothing: a step that starts and ends with
\* no invocation in progress leaves the captured state, the events and the
\* last result as they were.
C5_CompositionPure ==
  [][(ctl.mode = "idle" /\ ctl'.mode = "idle")
       => (x' = x /\ trace' = trace /\ result' = result /\ stack' = stack)]_vars

C5_Witness ==
  /\ Len(invoked) = 0
  /\ x = xs
  /\ trace = <<>>
  /\ \E e \in BagToSet(pool) : e.k = "bound" /\ e.ea.k = "bound" /\ e.f.k = "const"

\* C6: (e1.bind(f)).bind(g) and e1.bind(|a| f(a).bind(g)) return the same
\* value, leave the same state and perform the same closure runs and
\* continuation applications in the same order (the applications of the
\* wrapping closure |a| f(a).bind(g) itself set aside).
C6_BindAssociative ==
  /\ (Done /\ Root.k = "bound" /\ Root.ea.k = "bound") =>
       LET e1 == Root.ea.ea
           f == Root.ea.f
           g == Root.f
           r == call_once(bind(e1, Then(f, g)), xs) IN
         Root = bind(bind(e1, f), g) =>
           /\ x = r.x
           /\ result = r.val
           /\ Without(Cur, Then(f, g)) = Without(r.tr, Then(f, g))
  /\ (Done /\ Root.k = "bound" /\ Root.f.k = "then") =>
       LET e1 == Root.ea
           f == Root.f.f
           g == Root.f.g
           l == call_once(bind(bind(e1, f), g), xs) IN
         /\ x = l.x
         /\ result = l.val
         /\ Without(Cur, Then(f, g)) = Without(l.tr, Then(f, g))

C6_Witness ==
  /\ Done
  /\ Root.k = "bound"
  /\ Root.ea.k = "bound"
  /\ Root.ea.f = Clo("store")
  /\ Root.f.k = "const"
  /\ ~IsPanic(result)
  /\ x # 42

\* C7 (as stated): over any sequence of compositions and invocations no
\* first effect of an invoked Bound Effect is invoked more than once,
\* neither at top level nor as the first effect of another invocation.
C7_FirstEffectInvokedOnce ==
  \A i \in 1..Len(invoked), j \in 1..Len(invoked) :
    (i # j /\ invoked[i].k = "bound") =>
      /\ invoked[j] # invoked[i].ea
      /\ invoked[j].k = "bound" => invoked[j].ea # invoked[i].ea

\* C7 (amended): a single-use value (a BoundEffect, a ResolveFn, a closure
\* that is FnOnce alone such as set6, a continuation that moved a value
\* that is not Copy in)
\* is invoked or applied at most once for each time such a value came into
\* being, at top level or inside a composite, and a value so used is no
\* longer among those the caller owns: uses and values still owned never
\* exceed the values made.  So an invoked BoundEffect is never invoked
\* again, and its invocation uses the first effect and continuation stored
\* in it once; values that are Copy, or FnMut, are not so limited.
C7_SingleUseOnce ==
  \A t \in BagToSet(made (+) used (+) pool (+) conts) :
    Once(t) =>
      CopiesIn(t, used) + CopiesIn(t, pool) + CopiesIn(t, conts) <= CopiesIn(t, made)

C7_Witness ==
  /\ Done
  /\ Len(invoked) = 2
  /\ invoked[1].k = "bound"
  /\ invoked[2] = invoked[1]
  /\ CopiesIn(invoked[1], made) = 2
  /\ CopiesIn(invoked[1], used) = 2
  /\ BagToSet(pool) = {invoked[1].ea}

\* C8: a fault ends the invocation with that fault: no event follows the
\* faulting one, the invocation's result is the fault of the last event,
\* a fault of the first effect leaves only the first effect's events (the
\* continuation is not applied, the second effect not run), and the
\* captured state is what the closures that ran made of it.
C8_FaultPropagates ==
  Len(invoked) > 0 =>
    /\ \A i \in 1..(Len(Cur) - 1) : ~IsPanic(FaultOfEvent(Cur[i]))
    /\ (Done /\ Cur # <<>> /\ IsPanic(FaultOfEvent(Cur[Len(Cur)]))) =>
          /\ result = FaultOfEvent(Cur[Len(Cur)])
          /\ stack = <<>>
    /\ (Done /\ IsPanic(result)) =>
          /\ Cur # <<>>
          /\ result = FaultOfEvent(Cur[Len(Cur)])
          /\ x = Replay(Cur, xs)
          /\ (Root.k = "bound" /\ IsPanic(call_once(Root.ea, xs).val)) =>
                Cur = call_once(Root.ea, xs).tr

C8_Witness ==
  /\ Done
  /\ IsPanic(result)
  /\ Root.k = "bound"
  /\ x # xs
  /\ stack = <<>>

\* C9: the composite built by bind_ignore_contents does not return the
\* value of the second effect: its result is unit whatever e2 produces.
C9_SecondValueDiscarded ==
  (Done /\ IsBic(Root) /\ ~IsPanic(result)) => result = Unit

\* C10: ResolveFn::Const(v), applied to any argument, returns v itself and
\* runs nothing: when f = Const(v) (or From(v)) has just been applied,
\* the effect to call is v, the application is the last event and x is
\* what the closures run before it made of it; v's closures run after the
\* application.
C10_ConstResolver ==
  /\ (ctl.mode = "applied" /\ ctl.f.k = "const") =>
       LET v == ctl.f.v IN
         /\ ctl.eff = v
         /\ ctl.f = From(v)
         /\ \A a \in {Unit, IntV(42), RefPx, ctl.a} :
              /\ ApplyCont(ctl.f, a).eff = v
              /\ SelectEv(ApplyCont(ctl.f, a).tr, "run") = <<>>
         /\ trace # <<>>
         /\ trace[Len(trace)] = Applied(ctl.f)
         /\ x = Replay(trace, xs)
  /\ (Done /\ IsBic(Root) /\ ~IsPanic(result)) =>
       \E i \in 1..Len(Cur) :
         /\ Cur[i] = Applied(Root.f)
         /\ SubSeq(Cur, i + 1, Len(Cur)) = call_once(Root.f.v, Replay(SubSeq(Cur, 1, i), xs)).tr

C10_Witness ==
  /\ ctl.mode = "applied"
  /\ ctl.f.k = "const"
  /\ ctl.a = IntV(42)
  /\ ctl.eff.k = "prim"
  /\ ctl.eff.op = "dec"
====
